---------------------------- MODULE Spec2Model ----------------------------
(***************************************************************************)
(* QETpy: the single-trace / single-template optimal filter front end      *)
(* (qetpy/core/_of_1x1.py, class OF1x1) on top of the OFBase store.        *)
(*                                                                         *)
(* OF1x1 is translated from its source.  OFBase (qetpy.core.OFBase) is not *)
(* part of the sources at hand: its operations are modelled from the       *)
(* design description (sections 3, 4.1-4.4, 6 and 7).                      *)
(*                                                                         *)
(* Numbers.  Traces are integer sequences indexed 0..NumSamples-1.  The    *)
(* noise PSD is white (one level for all bins), so the frequency-domain    *)
(* sums of section 4.2/4.3 equal, by Parseval, time-domain sums: the       *)
(* inverse transform of signal_fft*phi is the circular cross-correlation   *)
(* of signal and template.  AC coupling drops the zero-frequency bin,      *)
(* i.e. the mean of signal and template.  Amplitudes and chi-squares are   *)
(* exact rationals [n, d] in lowest terms.  Times are in sample periods.   *)
(***************************************************************************)
EXTENDS Integers, Sequences, FiniteSets, TLC

---------------------------------------------------------------------------
(* Bounds of the model *)

\* trace length N
NumSamples == 4
\* samples of a signal lie in -MaxSample..MaxSample
MaxSample == 1
\* white PSD levels 1..MaxPsd
MaxPsd == 2
\* calls per behaviour of the construction specification
MaxOps == 4
\* calls per behaviour of the calls specification
MaxCalls == 3
\* sample periods per microsecond (the sample rate, in MHz)
SamplesPerUsec == 1

---------------------------------------------------------------------------
(* Optional values: None is the empty tuple, a present value v is <<v>> *)

None == <<>>

Some(v) == <<v>>

Val(x) == x[1]

Idx == 0 .. (NumSamples - 1)

Tags == {"default", "bkg"}

Objs == {"a", "b"}

---------------------------------------------------------------------------
(* Exact rationals *)

RECURSIVE GCD(_, _)
GCD(a, b) == IF b = 0 THEN a ELSE GCD(b, a % b)

Abs(x) == IF x < 0 THEN -x ELSE x

\* the rational n/d (d # 0) in lowest terms with a positive denominator
Rat(n, d) ==
  LET g == GCD(Abs(n), Abs(d))
      s == IF d < 0 THEN -1 ELSE 1
  IN  [n |-> s * (n \div g), d |-> s * (d \div g)]

RatInt(k) == [n |-> k, d |-> 1]

RatMul(x, y) == Rat(x.n * y.n, x.d * y.d)

RatSub(x, y) == Rat(x.n * y.d - y.n * x.d, x.d * y.d)

RatAdd(x, y) == Rat(x.n * y.d + y.n * x.d, x.d * y.d)

RatLess(x, y) == x.n * y.d < y.n * x.d

RatLeq(x, y) == x.n * y.d <= y.n * x.d

---------------------------------------------------------------------------
(* Traces *)

RECURSIVE SumTo(_, _)
SumTo(f, k) == IF k < 0 THEN 0 ELSE f[k] + SumTo(f, k - 1)

\* sum of a trace
Sum(f) == SumTo(f, NumSamples - 1)

\* sum of the products of two traces
Dot(f, g) == Sum([i \in Idx |-> f[i] * g[i]])

\* the trace f read d samples later, circularly
Roll(f, d) == [i \in Idx |-> f[(i + d) % NumSamples]]

\* a trace with value a at index k, b at index m and 0 elsewhere
Spikes(k, a, m, b) ==
  [i \in Idx |-> IF i = k THEN a ELSE IF i = m THEN b ELSE 0]

SampleVals == (-MaxSample) .. MaxSample

\* the signals of the fit specification: every trace with at most two spikes
Signals ==
  {Spikes(k, a, m, b) : k \in Idx, a \in SampleVals, m \in Idx, b \in SampleVals}

\* a pulse of height 2 at index k with a tail of height 1 behind it
Pulse(k) == Spikes(k, 2, (k + 1) % NumSamples, 1)

\* a pulse of height 1 at index k
Spike(k) == Spikes(k, 1, k, 1)

---------------------------------------------------------------------------
(* OFBase, sections 4.1-4.3: template and PSD store, kernel, projection.   *)
(* A stored template is [samples, inorm]; a kernel (phi with its norm) is  *)
(* held as the template, PSD level and coupling it was computed from: phi  *)
(* and norm are the functions below of these.  The per-tag intermediate    *)
(* result of a signal is the filtered trace (amps) and the chi-square of   *)
(* every index (chisq), with the signal and the kernel they came from.     *)

\* OFBase(sample_rate, pretrigger_samples): an empty store
OFBase(fs, pre) ==
  [fs |-> fs, pre |-> pre,
   templates |-> [t \in Tags |-> None],
   psd |-> None, coupling |-> None,
   phi |-> [t \in Tags |-> None],
   signal |-> None,
   filt |-> [t \in Tags |-> None]]

\* the outcome of an OFBase operation: the store after it and the error raised
Ok(b) == [b |-> b, err |-> "none"]

Raise(b, e) == [b |-> b, err |-> e]

\* template_tags(): the tags that hold a template
template_tags(b) == {t \in Tags : b.templates[t] # None}

\* add_template: stores the template under the tag; the kernel of the tag
\* and what was filtered with it are dropped (explicit update, 4.2)
add_template(b, template, tag, integralnorm) ==
  Ok([b EXCEPT !.templates[tag] = Some([samples |-> template, inorm |-> integralnorm]),
               !.phi[tag] = None,
               !.filt[tag] = None])

\* set_psd: stores the PSD and the coupling mode, shared by all tags; every
\* kernel is dropped.  A PSD with a non-positive value is refused (4.1)
set_psd(b, psd, coupling) ==
  IF psd <= 0
  THEN Raise(b, "ConfigurationError")
  ELSE Ok([b EXCEPT !.psd = Some(psd), !.coupling = Some(coupling),
                    !.phi = [t \in Tags |-> None],
                    !.filt = [t \in Tags |-> None]])

\* calc_phi: the kernel of a tag from its template and the PSD (4.2)
calc_phi(b, tag) ==
  IF b.templates[tag] = None \/ b.psd = None
  THEN Raise(b, "NotFoundError")
  ELSE Ok([b EXCEPT !.phi[tag] =
             Some([templ |-> Val(b.templates[tag]), psd |-> Val(b.psd),
                   coupling |-> Val(b.coupling)])])

\* the part of sum(x*y) the coupling removes: the zero-frequency bin if AC
DCBin(k, x, y) == IF k.coupling = "AC" THEN Sum(x) * Sum(y) ELSE 0

\* the factor integral normalisation divides the template by
IntegralOf(k) == IF k.templ.inorm THEN Sum(k.templ.samples) ELSE 1

\* norm = sum_k |template_fft|^2 / psd / N
Norm(k) ==
  LET t == k.templ.samples
  IN  Rat(NumSamples * Dot(t, t) - DCBin(k, t, t),
          NumSamples * k.psd * IntegralOf(k) * IntegralOf(k))

\* IFFT(signal_fft * phi) at delay d: the weighted circular cross-correlation
Projected(s, k, d) ==
  LET t == k.templ.samples
  IN  Rat(NumSamples * Dot(Roll(s, d), t) - DCBin(k, s, t),
          NumSamples * k.psd * IntegralOf(k))

\* filtered_time[i] = IFFT(signal_fft * phi)[i] / norm, index pre at delay 0
FilteredTime(s, k, pre) ==
  LET m == Norm(k)
  IN  [i \in Idx |->
         LET p == Projected(s, k, (i - pre) % NumSamples)
         IN  Rat(p.n * m.d, p.d * m.n)]

\* chisq_amp = sum_k |signal_fft|^2 / psd, with the scaling of norm
ChisqAmp(s, k) ==
  Rat(NumSamples * Dot(s, s) - DCBin(k, s, s), NumSamples * k.psd)

\* chi2_i = chisq_amp - norm * a_i^2 for every index, a the filtered trace
ChisqAllTimes(s, k, a) ==
  LET c == ChisqAmp(s, k)
      m == Norm(k)
  IN  [i \in Idx |-> RatSub(c, RatMul(m, RatMul(a[i], a[i])))]

\* the projection of the current signal for a tag (4.3)
calc_signal_filt(b, tag) ==
  IF b.signal = None \/ b.phi[tag] = None
  THEN Raise(b, "NotFoundError")
  ELSE LET a == FilteredTime(Val(b.signal), Val(b.phi[tag]), b.pre)
       IN  Ok([b EXCEPT !.filt[tag] =
                 Some([sig |-> Val(b.signal), kern |-> Val(b.phi[tag]),
                       amps |-> a,
                       chisq |-> ChisqAllTimes(Val(b.signal), Val(b.phi[tag]), a)])])

\* update_signal: sets the current signal, drops the intermediate results of
\* every tag and projects the signal for the listed tag
update_signal(b, signal, tag) ==
  calc_signal_filt([b EXCEPT !.signal = Some(signal),
                             !.filt = [t \in Tags |-> None]], tag)

---------------------------------------------------------------------------
(* OFBase, section 4.4: the delay fitter *)

\* the window arguments of a fit: four optional bounds, the inversion flag,
\* the pulse direction constraint and the interpolation flag
FitArgs(wmin_usec, wmax_usec, wmin_idx, wmax_idx, outside, dir, interp) ==
  [window_min_from_trig_usec |-> wmin_usec,
   window_max_from_trig_usec |-> wmax_usec,
   window_min_index |-> wmin_idx,
   window_max_index |-> wmax_idx,
   lgc_outside_window |-> outside,
   pulse_direction_constraint |-> dir,
   interpolate_t0 |-> interp]

HasWindow(w) ==
  \/ w.window_min_from_trig_usec # None
  \/ w.window_max_from_trig_usec # None
  \/ w.window_min_index # None
  \/ w.window_max_index # None

\* first index of the requested window: by index, else by offset from the
\* pretrigger, else the start of the trace
WindowLo(b, w) ==
  IF w.window_min_index # None THEN Val(w.window_min_index)
  ELSE IF w.window_min_from_trig_usec # None
       THEN b.pre + Val(w.window_min_from_trig_usec) * b.fs
       ELSE 0

\* last index of the requested window
WindowHi(b, w) ==
  IF w.window_max_index # None THEN Val(w.window_max_index)
  ELSE IF w.window_max_from_trig_usec # None
       THEN b.pre + Val(w.window_max_from_trig_usec) * b.fs
       ELSE NumSamples - 1

\* the indices the search may select, before the direction constraint
WindowIndices(b, w) ==
  IF ~HasWindow(w) THEN Idx
  ELSE IF w.lgc_outside_window
       THEN Idx \ (WindowLo(b, w) .. WindowHi(b, w))
       ELSE Idx \cap (WindowLo(b, w) .. WindowHi(b, w))

\* the requested window is empty or entirely outside [0, N)
WindowBad(b, w) ==
  HasWindow(w) /\ Idx \cap (WindowLo(b, w) .. WindowHi(b, w)) = {}

\* the indices the pulse direction constraint keeps
DirectionMask(amps, dir) ==
  IF dir = 1 THEN {i \in Idx : ~(amps[i].n < 0)}
  ELSE IF dir = -1 THEN {i \in Idx : ~(amps[i].n > 0)}
  ELSE Idx

\* scan of the indices in ascending order keeping the first minimum
RECURSIVE ArgMinScan(_, _, _, _)
ArgMinScan(chi2, adm, i, best) ==
  IF i > NumSamples - 1 THEN best
  ELSE IF i \in adm /\ (best = -1 \/ RatLess(chi2[i], chi2[best]))
       THEN ArgMinScan(chi2, adm, i + 1, i)
       ELSE ArgMinScan(chi2, adm, i + 1, best)

ArgMin(chi2, adm) == ArgMinScan(chi2, adm, 0, -1)

\* faulty variant of WrapResolved: no index is taken as a negative shift
WrapUnresolved(i) == i

\* an index beyond the midpoint of the trace is a negative shift
WrapResolved(i) == IF i > NumSamples \div 2 THEN i - NumSamples ELSE i

SetMin(S) == CHOOSE x \in S : \A y \in S : x <= y

SetMax(S) == CHOOSE x \in S : \A y \in S : y <= x

\* vertex of the parabola through the minimum and its two neighbours,
\* as an offset from index i, clipped to the admissible indices
VertexOffset(chi2, adm, i) ==
  LET lo == chi2[(i - 1) % NumSamples]
      hi == chi2[(i + 1) % NumSamples]
      curv == RatSub(RatAdd(lo, hi), RatAdd(chi2[i], chi2[i]))
      diff == RatSub(lo, hi)
      delta == IF curv.n = 0 THEN RatInt(0)
               ELSE Rat(diff.n * curv.d, 2 * diff.d * curv.n)
      least == RatInt(SetMin(adm) - i)
      most == RatInt(SetMax(adm) - i)
  IN  IF RatLess(delta, least) THEN least
      ELSE IF RatLess(most, delta) THEN most
      ELSE delta

\* the intermediate results a fit of the tag reads: those cached for the
\* current signal, computed first when the tag has none
Intermediates(b, tag) ==
  IF b.filt[tag] # None THEN Ok(b) ELSE calc_signal_filt(b, tag)

NoFit == [amp |-> None, t0 |-> None, chisq |-> None]

\* the outcome of a fit: the store after it, the error raised, the result
Fitted(b, fit) == [b |-> b, err |-> "none", fit |-> fit]

FitRaised(b, e) == [b |-> b, err |-> e, fit |-> NoFit]

\* a number of samples as a time: divided by the sample rate
SamplesToTime(x, fs) == Rat(x.n, x.d * fs)

\* the fit at index best of the admissible indices adm
FitAt(b, w, f, adm, best) ==
  Fitted(b, [amp |-> Some(f.amps[best]),
             t0 |-> Some(SamplesToTime(
                           RatAdd(RatInt(WrapResolved(best) - b.pre),
                                  IF w.interpolate_t0
                                  THEN VertexOffset(f.chisq, adm, best)
                                  ELSE RatInt(0)), b.fs)),
             chisq |-> Some(f.chisq[best])])

\* the search over the window and direction mask of the intermediates f
FitSearch(b, w, f, adm) ==
  IF adm = {} THEN FitRaised(b, "WindowError")
  ELSE FitAt(b, w, f, adm, ArgMin(f.chisq, adm))

\* the fit on the outcome r of getting the intermediate results
FitWithDelay(r, tag, w) ==
  IF r.err # "none" THEN FitRaised(r.b, r.err)
  ELSE FitSearch(r.b, w, Val(r.b.filt[tag]),
                 WindowIndices(r.b, w)
                   \cap DirectionMask(Val(r.b.filt[tag]).amps,
                                      w.pulse_direction_constraint))

\* get_fit_withdelay: (amp, t0, chisq) of the admissible index of least chi2
get_fit_withdelay(b, tag, w) ==
  IF w.pulse_direction_constraint \notin {-1, 0, 1}
  THEN FitRaised(b, "ValueError")
  ELSE IF WindowBad(b, w) THEN FitRaised(b, "WindowError")
  ELSE FitWithDelay(Intermediates(b, tag), tag, w)

\* the fit of the intermediates f at index i, the pretrigger plus the shift
FitNoDelayAt(b, f, shift, i, use_chisq_alltimes) ==
  Fitted(b, [amp |-> Some(f.amps[i]),
             t0 |-> Some(SamplesToTime(RatInt(shift), b.fs)),
             chisq |-> Some(IF use_chisq_alltimes
                            THEN f.chisq[i]
                            ELSE RatSub(ChisqAmp(f.sig, f.kern),
                                        RatMul(Norm(f.kern),
                                               RatMul(f.amps[i], f.amps[i]))))])

\* the no-delay fit on the outcome r of getting the intermediate results
FitNoDelay(r, tag, shift, use_chisq_alltimes) ==
  IF r.err # "none" THEN FitRaised(r.b, r.err)
  ELSE FitNoDelayAt(r.b, Val(r.b.filt[tag]), shift,
                    (r.b.pre + shift) % NumSamples, use_chisq_alltimes)

\* get_fit_nodelay: (amp, t0, chisq) at the pretrigger index plus a shift
get_fit_nodelay(b, tag, shift_usec, use_chisq_alltimes) ==
  FitNoDelay(Intermediates(b, tag), tag,
             IF shift_usec = None THEN 0 ELSE Val(shift_usec) * b.fs,
             use_chisq_alltimes)

---------------------------------------------------------------------------
(* OF1x1 (qetpy/core/_of_1x1.py) *)

VARIABLES
  bases,   \* the OFBase objects: the shared one and the one each OF1x1 made
  objs,    \* the OF1x1 objects
  last,    \* the last call: its operation, arguments and the error it raised
  nops,    \* number of calls made
  proc     \* the call of the dump processing made, with what it returned

vars == <<bases, objs, last, nops, proc>>

\* no dump processing called yet
NoProc == [op |-> "none"]

BaseIds == {"shared"} \cup Objs

\* no OF1x1 bound to the name yet
NoObject ==
  [exists |-> FALSE, base |-> "shared", tag |-> "default",
   attr_nodelay |-> FALSE, attr_withdelay |-> FALSE,
   of_amp_nodelay |-> None, of_chisq_nodelay |-> None, of_t0_nodelay |-> None,
   of_amp_withdelay |-> None, of_chisq_withdelay |-> None,
   of_t0_withdelay |-> None]

\* the arguments of OF1x1(...)
InitArgs(of_base, template_tag, template, psd, sample_rate, pretrigger_msec, pretrigger_samples, coupling, integralnorm) ==
  [of_base |-> of_base, template_tag |-> template_tag, template |-> template,
   psd |-> psd, sample_rate |-> sample_rate,
   pretrigger_msec |-> pretrigger_msec,
   pretrigger_samples |-> pretrigger_samples,
   coupling |-> coupling, integralnorm |-> integralnorm]

\* OFBase's pretrigger index: the samples given, else the length in msec
PretriggerIndex(a) ==
  IF a.pretrigger_samples # None THEN Val(a.pretrigger_samples)
  ELSE Val(a.pretrigger_msec) * 1000 * Val(a.sample_rate)

\* faulty variant of init_base: a missing pretrigger is taken as 0 and a
\* missing sample rate as 1
init_base_defaults(bs, o, a) ==
  IF a.of_base # None
  THEN [err |-> "none", id |-> Val(a.of_base), b |-> Val(bs[Val(a.of_base)])]
  ELSE [err |-> "none", id |-> o,
        b |-> OFBase(IF a.sample_rate = None THEN 1 ELSE Val(a.sample_rate),
                     IF a.pretrigger_samples # None
                     THEN Val(a.pretrigger_samples) ELSE 0)]

\* __init__, the OF base: the one passed, else a new one
init_base(bs, o, a) ==
  IF a.of_base # None
  THEN [err |-> "none", id |-> Val(a.of_base), b |-> Val(bs[Val(a.of_base)])]
  ELSE IF a.sample_rate = None
  THEN [err |-> "ValueError", id |-> o, b |-> OFBase(0, 0)]
  ELSE IF a.pretrigger_msec = None /\ a.pretrigger_samples = None
  THEN [err |-> "ValueError", id |-> o, b |-> OFBase(0, 0)]
  ELSE [err |-> "none", id |-> o,
        b |-> OFBase(Val(a.sample_rate), PretriggerIndex(a))]

\* __init__, the template: added when given, else it must be in the base;
\* done is TRUE when __init__ returns here
init_template(b, a) ==
  IF a.template # None
  THEN LET r == add_template(b, Val(a.template), a.template_tag, a.integralnorm)
       IN  [b |-> r.b, err |-> r.err, done |-> FALSE]
  ELSE IF a.template_tag \notin template_tags(b)
  THEN [b |-> b, err |-> "none", done |-> TRUE]
  ELSE [b |-> b, err |-> "none", done |-> FALSE]

\* __init__, the PSD: set when given, else it must be in the base
init_psd(b, a) ==
  IF a.psd # None
  THEN LET r == set_psd(b, Val(a.psd), a.coupling)
       IN  [b |-> r.b, err |-> r.err, done |-> FALSE]
  ELSE IF b.psd = None
  THEN [b |-> b, err |-> "none", done |-> TRUE]
  ELSE [b |-> b, err |-> "none", done |-> FALSE]

\* faulty variant of init_phi: the test for a missing kernel is inverted
init_phi_inverted(b, tag) ==
  IF b.phi[tag] # None THEN calc_phi(b, tag) ELSE Ok(b)

\* __init__, the kernel: computed if the base holds none for the tag
init_phi(b, tag) ==
  IF b.phi[tag] = None THEN calc_phi(b, tag) ELSE Ok(b)

\* the object when __init__ returns before the results are initialised
PartialObject(id, a) ==
  [NoObject EXCEPT !.exists = TRUE, !.base = id, !.tag = a.template_tag]

\* the object when __init__ runs to its end: every result is None
FullObject(id, a) ==
  [PartialObject(id, a) EXCEPT !.attr_nodelay = TRUE, !.attr_withdelay = TRUE]

\* the outcome of __init__: the error raised, whether an object is returned
\* (made), the base it holds and the object
InitOutcome(err, id, b, obj) ==
  [err |-> err, made |-> err = "none", id |-> id, b |-> b, obj |-> obj]

\* __init__ from the kernel on, s the outcome of calc_phi
InitResults(id, a, s) ==
  IF s.err # "none" THEN InitOutcome(s.err, id, s.b, PartialObject(id, a))
  ELSE InitOutcome("none", id, s.b, FullObject(id, a))

\* __init__ from the PSD on, s the outcome of the PSD step
InitKernel(id, a, s) ==
  IF s.err # "none" \/ s.done
  THEN InitOutcome(s.err, id, s.b, PartialObject(id, a))
  ELSE InitResults(id, a, init_phi(s.b, a.template_tag))

\* __init__ from the template on, s the outcome of the template step
InitPsd(id, a, s) ==
  IF s.err # "none" \/ s.done
  THEN InitOutcome(s.err, id, s.b, PartialObject(id, a))
  ELSE InitKernel(id, a, init_psd(s.b, a))

\* __init__ from the base on, s the outcome of the base step
InitTemplate(a, s) ==
  IF s.err # "none" THEN InitOutcome(s.err, s.id, s.b, NoObject)
  ELSE InitPsd(s.id, a, init_template(s.b, a))

\* OF1x1.__init__: the base it leaves, the object it returns (made) or the
\* error it raises
OF1x1_init(bs, o, a) == InitTemplate(a, init_base(bs, o, a))

\* the parameters of plot
PlotParams == {"lgc_plot_withdelay", "lgc_plot_nodelay", "figsize", "xlim_msec"}

\* plot called with keyword arguments kwargs: the error it raises
plot(obj, b, kwargs) ==
  LET withdelay == IF "lgc_plot_withdelay" \in DOMAIN kwargs
                   THEN kwargs.lgc_plot_withdelay ELSE TRUE
      nodelay == IF "lgc_plot_nodelay" \in DOMAIN kwargs
                 THEN kwargs.lgc_plot_nodelay ELSE TRUE
  IN  IF ~(DOMAIN kwargs \subseteq PlotParams) THEN "TypeError"
      ELSE IF withdelay /\ ~obj.attr_withdelay THEN "AttributeError"
      ELSE IF withdelay /\ obj.of_amp_withdelay = None THEN "none"
      ELSE IF nodelay /\ ~obj.attr_nodelay THEN "AttributeError"
      ELSE IF nodelay /\ obj.of_amp_nodelay = None THEN "none"
      ELSE IF b.signal = None THEN "TypeError"
      ELSE IF ~obj.attr_withdelay THEN "AttributeError"
      ELSE IF obj.of_chisq_withdelay = None THEN "TypeError"
      ELSE "none"

\* faulty variant of CalcUpdateSignal: a base that holds a signal keeps it
CalcUpdateSignalOnce(b, tag, signal) ==
  IF signal # None /\ b.signal = None
  THEN update_signal(b, Val(signal), tag) ELSE Ok(b)

\* calc and calc_nodelay, the signal: update_signal when one is given
CalcUpdateSignal(b, tag, signal) ==
  IF signal # None THEN update_signal(b, Val(signal), tag) ELSE Ok(b)

\* faulty variant of CalcFitArgs: lgc_outside_window is not handed on
CalcFitArgsInside(w) ==
  FitArgs(w.window_min_from_trig_usec, w.window_max_from_trig_usec,
          w.window_min_index, w.window_max_index, FALSE,
          w.pulse_direction_constraint, w.interpolate_t0)

\* faulty variant of CalcFitArgs: the window indices are not handed on
CalcFitArgsNoIndex(w) ==
  FitArgs(w.window_min_from_trig_usec, w.window_max_from_trig_usec,
          None, None, w.lgc_outside_window,
          w.pulse_direction_constraint, w.interpolate_t0)

\* faulty variant of CalcFitArgs: the direction constraint is not handed on
CalcFitArgsNoDirection(w) ==
  FitArgs(w.window_min_from_trig_usec, w.window_max_from_trig_usec,
          w.window_min_index, w.window_max_index, w.lgc_outside_window,
          0, w.interpolate_t0)

\* faulty variant of CalcFitArgs: the window in microseconds is not handed on
CalcFitArgsNoUsec(w) ==
  FitArgs(None, None, w.window_min_index, w.window_max_index,
          w.lgc_outside_window, w.pulse_direction_constraint, w.interpolate_t0)

\* faulty variant of CalcFitArgs: interpolate_t0 is not handed on
CalcFitArgsNoInterpolation(w) ==
  FitArgs(w.window_min_from_trig_usec, w.window_max_from_trig_usec,
          w.window_min_index, w.window_max_index, w.lgc_outside_window,
          w.pulse_direction_constraint, FALSE)

\* calc, the arguments it hands to get_fit_withdelay
CalcFitArgs(w) ==
  FitArgs(w.window_min_from_trig_usec, w.window_max_from_trig_usec,
          w.window_min_index, w.window_max_index, w.lgc_outside_window,
          w.pulse_direction_constraint, w.interpolate_t0)

\* faulty variant of StoreWithDelay: t0 and chisq are unpacked in the wrong order
StoreWithDelayMisordered(obj, fit) ==
  [obj EXCEPT !.attr_withdelay = TRUE,
              !.of_amp_withdelay = fit.amp,
              !.of_chisq_withdelay = fit.t0,
              !.of_t0_withdelay = fit.chisq]

\* calc, the with-delay results stored from (amp, t0, chisq)
StoreWithDelay(obj, fit) ==
  [obj EXCEPT !.attr_withdelay = TRUE,
              !.of_amp_withdelay = fit.amp,
              !.of_chisq_withdelay = fit.chisq,
              !.of_t0_withdelay = fit.t0]

\* calc and calc_nodelay, the no-delay results stored from (amp, t0, chisq)
StoreNoDelay(obj, fit) ==
  [obj EXCEPT !.attr_nodelay = TRUE,
              !.of_amp_nodelay = fit.amp,
              !.of_chisq_nodelay = fit.chisq,
              !.of_t0_nodelay = fit.t0]

\* faulty variant of CalcRaised: the with-delay results are reset before the fit
CalcRaisedCleared(obj, b, err) ==
  [obj |-> [obj EXCEPT !.of_amp_withdelay = None,
                       !.of_chisq_withdelay = None,
                       !.of_t0_withdelay = None],
   b |-> b, err |-> err]

\* calc, when update_signal or get_fit_withdelay raises: nothing is stored
CalcRaised(obj, b, err) == [obj |-> obj, b |-> b, err |-> err]

\* calc, the plot: the error of the call is the error plot raises
CalcPlot(obj, b, lgc_fit_nodelay, lgc_plot) ==
  [obj |-> obj, b |-> b,
   err |-> IF lgc_plot
           THEN plot(obj, b, [lgc_plot_withdelay |-> TRUE,
                              lgc_plot_nodelay |-> lgc_fit_nodelay])
           ELSE "none"]

\* calc, the no-delay results stored from the outcome g of get_fit_nodelay
CalcStoreNoDelay(obj, g, lgc_plot) ==
  IF g.err # "none" THEN [obj |-> obj, b |-> g.b, err |-> g.err]
  ELSE CalcPlot(StoreNoDelay(obj, g.fit), g.b, TRUE, lgc_plot)

\* calc, the no-delay fit and the plot, after the with-delay results are stored
CalcNoDelayAndPlot(obj, b, lgc_fit_nodelay, lgc_plot) ==
  IF lgc_fit_nodelay
  THEN CalcStoreNoDelay(obj, get_fit_nodelay(b, obj.tag, None, TRUE), lgc_plot)
  ELSE CalcPlot(obj, b, FALSE, lgc_plot)

\* calc, from the outcome f of get_fit_withdelay on
CalcStore(obj, f, lgc_fit_nodelay, lgc_plot) ==
  IF f.err # "none" THEN CalcRaised(obj, f.b, f.err)
  ELSE CalcNoDelayAndPlot(StoreWithDelay(obj, f.fit), f.b,
                          lgc_fit_nodelay, lgc_plot)

\* calc, from the outcome u of the signal update on
CalcFit(obj, u, w, lgc_fit_nodelay, lgc_plot) ==
  IF u.err # "none" THEN CalcRaised(obj, u.b, u.err)
  ELSE CalcStore(obj, get_fit_withdelay(u.b, obj.tag, CalcFitArgs(w)),
                 lgc_fit_nodelay, lgc_plot)

\* OF1x1.calc: the object and base it leaves and the error it raises
calc(obj, b, signal, w, lgc_fit_nodelay, lgc_plot) ==
  CalcFit(obj, CalcUpdateSignal(b, obj.tag, signal), w, lgc_fit_nodelay, lgc_plot)

\* calc_nodelay, the plot call
CalcNodelayPlot(obj, b, lgc_plot) ==
  [obj |-> obj, b |-> b,
   err |-> IF lgc_plot THEN plot(obj, b, [lgc_fit_nodelay |-> TRUE]) ELSE "none"]

\* calc_nodelay, from the outcome g of get_fit_nodelay on
CalcNodelayStore(obj, g, lgc_plot) ==
  IF g.err # "none" THEN [obj |-> obj, b |-> g.b, err |-> g.err]
  ELSE CalcNodelayPlot(StoreNoDelay(obj, g.fit), g.b, lgc_plot)

\* calc_nodelay, from the outcome u of the signal update on
CalcNodelayFit(obj, u, shift_usec, use_chisq_alltimes, lgc_plot) ==
  IF u.err # "none" THEN [obj |-> obj, b |-> u.b, err |-> u.err]
  ELSE CalcNodelayStore(obj, get_fit_nodelay(u.b, obj.tag, shift_usec,
                                             use_chisq_alltimes), lgc_plot)

\* OF1x1.calc_nodelay: the object and base it leaves and the error it raises
calc_nodelay(obj, b, signal, shift_usec, use_chisq_alltimes, lgc_plot) ==
  CalcNodelayFit(obj, CalcUpdateSignal(b, obj.tag, signal), shift_usec,
                 use_chisq_alltimes, lgc_plot)

\* get_result_nodelay: (amp, t0, chisq), AttributeError if never initialised
get_result_nodelay(obj) ==
  IF ~obj.attr_nodelay
  THEN [err |-> "AttributeError", fit |-> NoFit]
  ELSE [err |-> "none",
        fit |-> [amp |-> obj.of_amp_nodelay, t0 |-> obj.of_t0_nodelay,
                 chisq |-> obj.of_chisq_nodelay]]

\* get_result_withdelay: (amp, t0, chisq)
get_result_withdelay(obj) ==
  IF ~obj.attr_withdelay
  THEN [err |-> "AttributeError", fit |-> NoFit]
  ELSE [err |-> "none",
        fit |-> [amp |-> obj.of_amp_withdelay, t0 |-> obj.of_t0_withdelay,
                 chisq |-> obj.of_chisq_withdelay]]

---------------------------------------------------------------------------
(* The calls *)

\* the record of a call; arguments a call does not take are None or FALSE
Call(op, o, tag, a, sig, w, nodelay, plt, shift, alltimes, err) ==
  [op |-> op, obj |-> o, tag |-> tag, a |-> a, sig |-> sig, w |-> w,
   lgc_fit_nodelay |-> nodelay, lgc_plot |-> plt, shift_usec |-> shift,
   use_chisq_alltimes |-> alltimes, err |-> err]

NoCall ==
  Call("none", "a", "default", None, None, None, FALSE, FALSE, None, FALSE, "none")

\* the base an OF1x1 holds
BaseOf(o) == Val(bases[objs[o].base])

\* o = OF1x1(**a) with outcome r.  When __init__ raises, o keeps what it was
\* bound to and a base made by __init__ is lost; a base passed in keeps what
\* was done to it
Constructed(o, a, r) ==
  /\ objs' = IF r.made THEN [objs EXCEPT ![o] = r.obj] ELSE objs
  /\ bases' = IF r.made
              THEN [[bases EXCEPT ![o] = None] EXCEPT ![r.id] = Some(r.b)]
              ELSE IF a.of_base # None
                   THEN [bases EXCEPT ![r.id] = Some(r.b)]
                   ELSE bases
  /\ last' = Call("init", o, a.template_tag, Some(a), None, None, FALSE, FALSE,
                  None, FALSE, r.err)
  /\ UNCHANGED proc

NewOF1x1(o, a) == Constructed(o, a, OF1x1_init(bases, o, a))

\* the call c of a method of objs[o] ends with outcome r
Returned(o, c, r) ==
  /\ objs' = [objs EXCEPT ![o] = r.obj]
  /\ bases' = [bases EXCEPT ![objs[o].base] = Some(r.b)]
  /\ last' = [c EXCEPT !.err = r.err]
  /\ UNCHANGED proc

\* objs[o].calc(signal, **w, lgc_fit_nodelay, lgc_plot)
Calc(o, signal, w, lgc_fit_nodelay, lgc_plot) ==
  /\ objs[o].exists
  /\ Returned(o, Call("calc", o, objs[o].tag, None, signal, Some(w),
                      lgc_fit_nodelay, lgc_plot, None, FALSE, "none"),
              calc(objs[o], BaseOf(o), signal, w, lgc_fit_nodelay, lgc_plot))

\* objs[o].calc_nodelay(signal, shift_usec, use_chisq_alltimes, lgc_plot)
CalcNodelay(o, signal, shift_usec, use_chisq_alltimes, lgc_plot) ==
  /\ objs[o].exists
  /\ Returned(o, Call("calc_nodelay", o, objs[o].tag, None, signal, None,
                      FALSE, lgc_plot, shift_usec, use_chisq_alltimes, "none"),
              calc_nodelay(objs[o], BaseOf(o), signal, shift_usec,
                           use_chisq_alltimes, lgc_plot))

\* a call on the shared base by its other users: the outcome r of the call
BaseCall(op, tag, r) ==
  /\ bases' = [bases EXCEPT !["shared"] = Some(r.b)]
  /\ last' = Call(op, "a", tag, None, None, None, FALSE, FALSE, None, FALSE, r.err)
  /\ UNCHANGED <<objs, proc>>

BaseAddTemplate(tag, template, integralnorm) ==
  BaseCall("add_template", tag,
           add_template(Val(bases["shared"]), template, tag, integralnorm))

BaseSetPsd(psd, coupling) ==
  BaseCall("set_psd", "default", set_psd(Val(bases["shared"]), psd, coupling))

BaseCalcPhi(tag) ==
  BaseCall("calc_phi", tag, calc_phi(Val(bases["shared"]), tag))

BaseUpdateSignal(signal, tag) ==
  BaseCall("update_signal", tag, update_signal(Val(bases["shared"]), signal, tag))

---------------------------------------------------------------------------
(* The inputs *)

Pretrigger == NumSamples \div 2

Couplings == {"AC", "DC"}

Templates == {Pulse(Pretrigger), Spike(Pretrigger)}

NoWindow(dir) == FitArgs(None, None, None, None, FALSE, dir, FALSE)

IndexWindow(lo, hi, outside, dir) ==
  FitArgs(None, None, Some(lo), Some(hi), outside, dir, FALSE)

UsecWindow(lo, hi, outside, dir) ==
  FitArgs(Some(lo), Some(hi), None, None, outside, dir, FALSE)

\* each OF1x1 of the lifecycle specifications has its own tag
TagOf(o) == IF o = "a" THEN "default" ELSE "bkg"

\* the signals of the lifecycle specifications
LifeSignals == {Spike(Pretrigger), Spikes(Pretrigger, -1, 0, 1)}

LifeSignalArgs == {None} \cup {Some(x) : x \in LifeSignals}

\* OF1x1(of_base=shared, template_tag=TagOf(o), template=t, psd=p)
SharedInitArgs(o, t, p) ==
  InitArgs(Some("shared"), TagOf(o), t, p, Some(SamplesPerUsec), None,
           Some(Pretrigger), "AC", FALSE)

\* OF1x1(template_tag=TagOf(o), template, psd, sample_rate=fs,
\* pretrigger_samples=pre): the object makes its own base
OwnInitArgs(o, fs, pre) ==
  InitArgs(None, TagOf(o), Some(Pulse(Pretrigger)), Some(1), fs, None, pre,
           "AC", FALSE)

\* the constructor calls of the construction specification
LifeInitArgs(o) ==
  {SharedInitArgs(o, t, p) :
     t \in {None, Some(Pulse(Pretrigger))}, p \in {None, Some(1)}}
  \cup {OwnInitArgs(o, None, Some(Pretrigger)),
        OwnInitArgs(o, Some(SamplesPerUsec), None),
        OwnInitArgs(o, Some(SamplesPerUsec), Some(Pretrigger))}

\* the fit arguments of the fit specification
FitWindows ==
  {NoWindow(dir) : dir \in {-1, 0, 1}}
  \cup {IndexWindow(x[1], x[2], outside, dir) :
          x \in {y \in Idx \X Idx : y[1] <= y[2]}, outside \in BOOLEAN,
          dir \in {-1, 0, 1}}
  \cup {UsecWindow(-1, 0, outside, dir) :
          outside \in BOOLEAN, dir \in {-1, 0, 1}}

\* windows that hold no index of the trace: past its end, before its start,
\* with the bounds in reverse order, and the complement of the whole trace
BadWindows ==
  {IndexWindow(NumSamples, NumSamples + 1, outside, 0) : outside \in BOOLEAN}
  \cup {UsecWindow(NumSamples, NumSamples + 1, outside, 0) : outside \in BOOLEAN}
  \cup {IndexWindow(Pretrigger, Pretrigger - 1, FALSE, 0),
        UsecWindow(-NumSamples - 1, -NumSamples, FALSE, 0),
        UsecWindow(1, 0, FALSE, 0),
        IndexWindow(0, NumSamples - 1, TRUE, 0)}

\* the fit arguments w with interpolate_t0=True
Interpolated(w) == [w EXCEPT !.interpolate_t0 = TRUE]

\* the interpolated fits of the window specification
InterpWindows ==
  {Interpolated(NoWindow(dir)) : dir \in {0, 1}}
  \cup {Interpolated(IndexWindow(x[1], x[2], outside, dir)) :
          x \in {y \in Idx \X Idx : y[1] <= y[2]}, outside \in BOOLEAN,
          dir \in {0, 1}}

\* calc's (fit arguments, lgc_fit_nodelay, lgc_plot) in the calls specification
CallFitArgs ==
  {<<NoWindow(0), nd, plt>> : nd \in BOOLEAN, plt \in BOOLEAN}
  \cup {<<NoWindow(2), FALSE, FALSE>>}

---------------------------------------------------------------------------
(* The construction specification: OF1x1 objects made, used and made again *)
(* on a shared OFBase that other code also updates                         *)

NoBases == [id \in BaseIds |-> None]

Init ==
  /\ bases = [NoBases EXCEPT !["shared"] = Some(OFBase(SamplesPerUsec, Pretrigger))]
  /\ objs = [o \in Objs |-> NoObject]
  /\ last = NoCall
  /\ nops = 0
  /\ proc = NoProc

\* one more call, while the behaviour has calls left
Step(n) == nops < n /\ nops' = nops + 1

Next ==
  \/ Step(MaxOps) /\ \E o \in Objs : \E a \in LifeInitArgs(o) : NewOF1x1(o, a)
  \/ Step(MaxOps) /\ \E o \in Objs, sig \in {None, Some(Spike(Pretrigger))} :
                       Calc(o, sig, NoWindow(0), TRUE, FALSE)
  \/ Step(MaxOps) /\ \E tag \in Tags : BaseAddTemplate(tag, Spike(Pretrigger), FALSE)
  \/ Step(MaxOps) /\ \E p \in {0, MaxPsd} : BaseSetPsd(p, "AC")
  \/ Step(MaxOps) /\ \E tag \in Tags : BaseCalcPhi(tag)

Spec == Init /\ [][Next]_vars

---------------------------------------------------------------------------
(* The calls specification: two OF1x1 with different tags on one OFBase,   *)
(* each made with its template, fit signals in turn                        *)

\* a = OF1x1(of_base=shared, template=pulse, psd=MaxPsd)
FirstInit ==
  OF1x1_init([NoBases EXCEPT !["shared"] = Some(OFBase(SamplesPerUsec, Pretrigger))],
             "a", SharedInitArgs("a", Some(Pulse(Pretrigger)), Some(MaxPsd)))

\* b = OF1x1(of_base=shared, template_tag="bkg", template=spike)
SecondInit ==
  OF1x1_init([NoBases EXCEPT !["shared"] = Some(FirstInit.b)],
             "b", SharedInitArgs("b", Some(Spike(Pretrigger)), None))

InitCalls ==
  /\ bases = [NoBases EXCEPT !["shared"] = Some(SecondInit.b)]
  /\ objs = [o \in Objs |-> IF o = "a" THEN FirstInit.obj ELSE SecondInit.obj]
  /\ last = Call("init", "b", "bkg",
                 Some(SharedInitArgs("b", Some(Spike(Pretrigger)), None)),
                 None, None, FALSE, FALSE, None, FALSE, SecondInit.err)
  /\ nops = 0
  /\ proc = NoProc

NextCalls ==
  \/ Step(MaxCalls) /\ \E o \in Objs, sig \in LifeSignalArgs, x \in CallFitArgs :
                         Calc(o, sig, x[1], x[2], x[3])
  \/ Step(MaxCalls) /\ \E o \in Objs, sig \in LifeSignalArgs, plt \in BOOLEAN :
                         CalcNodelay(o, sig, None, TRUE, plt)
  \/ Step(MaxCalls) /\ \E sig \in LifeSignals, tag \in Tags :
                         BaseUpdateSignal(sig, tag)

SpecCalls == InitCalls /\ [][NextCalls]_vars

---------------------------------------------------------------------------
(* The fit specification: one OF1x1 on a base of its own, made from a      *)
(* template, a PSD and a coupling, fits one signal                         *)

InitFit ==
  \E t \in Templates, c \in Couplings, inorm \in BOOLEAN :
    LET a == InitArgs(None, "default", Some(t), Some(MaxPsd),
                      Some(SamplesPerUsec), None, Some(Pretrigger), c, inorm)
        r == OF1x1_init(NoBases, "a", a)
    IN  /\ bases = [NoBases EXCEPT !["a"] = Some(r.b)]
        /\ objs = [o \in Objs |-> IF o = "a" THEN r.obj ELSE NoObject]
        /\ last = Call("init", "a", "default", Some(a), None, None, FALSE,
                       FALSE, None, FALSE, r.err)
        /\ nops = 0
        /\ proc = NoProc

\* the one fit of the behaviour
Once == last.op = "init" /\ UNCHANGED nops

NextFit ==
  \/ Once /\ \E sig \in Signals, w \in FitWindows :
               Calc("a", Some(sig), w, TRUE, FALSE)
  \/ Once /\ \E sig \in Signals, u \in {None, Some(0), Some(1)},
                all \in BOOLEAN :
               CalcNodelay("a", Some(sig), u, all, FALSE)

SpecFit == InitFit /\ [][NextFit]_vars

---------------------------------------------------------------------------
(* The window specification: the OF1x1 of the fit specification fits one   *)
(* signal in a window that holds no index, or with interpolate_t0          *)

NextWindow ==
  \/ Once /\ \E sig \in Signals, w \in BadWindows, nd \in BOOLEAN :
               Calc("a", Some(sig), w, nd, FALSE)
  \/ Once /\ \E sig \in Signals, w \in InterpWindows :
               Calc("a", Some(sig), w, FALSE, FALSE)

SpecWindow == InitFit /\ [][NextWindow]_vars

---------------------------------------------------------------------------
(* What a state shows of the last call *)

\* the OF1x1 the last call was made on, and the OFBase it holds
Obj == objs[last.obj]

Base == Val(bases[Obj.base])

\* the last call was calc and returned
CalcDone == last.op = "calc" /\ last.err = "none"

\* the fit arguments of the last call, a calc
Args == Val(last.w)

Dir == Args.pulse_direction_constraint

\* the kernel of the object's tag, from the template and PSD the base stores
KernelOf(b, tag) ==
  [templ |-> Val(b.templates[tag]), psd |-> Val(b.psd),
   coupling |-> Val(b.coupling)]

\* the filtered trace a_i of the base's current signal for the object's tag
Amps == FilteredTime(Val(Base.signal), KernelOf(Base, Obj.tag), Base.pre)

\* chi2_i = chisq_amp - norm * a_i^2 of the current signal
Chi2 ==
  [i \in Idx |->
     RatSub(ChisqAmp(Val(Base.signal), KernelOf(Base, Obj.tag)),
            RatMul(Norm(KernelOf(Base, Obj.tag)), RatMul(Amps[i], Amps[i])))]

\* i has the least chi2 of the indices S, and is the smallest index that has
IsFirstMinimum(i, S) ==
  /\ i \in S
  /\ \A j \in S : RatLeq(Chi2[i], Chi2[j]) /\ (j < i => RatLess(Chi2[i], Chi2[j]))

FirstMinimum(S) == CHOOSE i \in S : IsFirstMinimum(i, S)

\* the (amp, t0, chisq) of a fit that selects index i
FitOf(i) ==
  [amp |-> Some(Amps[i]),
   t0 |-> Some(SamplesToTime(RatInt(WrapResolved(i) - Base.pre), Base.fs)),
   chisq |-> Some(Chi2[i])]

\* the indices the last call's window and direction constraint admit
Admissible == WindowIndices(Base, Args) \cap DirectionMask(Amps, Dir)

WithDelay == get_result_withdelay(Obj).fit

NoDelay == get_result_nodelay(Obj).fit

---------------------------------------------------------------------------
(* Claims on the fit specification *)

\* C1: calc returns the amplitude and chi-square (and the time) of the
\* admissible index whose chi2_i = chisq_amp - norm*a_i^2 is least, and of
\* the smallest such index when several admissible indices reach the least
C1_FirstMinimum ==
  CalcDone => \E i \in Idx : IsFirstMinimum(i, Admissible) /\ WithDelay = FitOf(i)

\* C1, its case: two admissible indices of different amplitude reach the
\* least chi2, and the results are those of the smaller index
C1_Witness ==
  /\ CalcDone
  /\ \E i \in Admissible, j \in Admissible :
       /\ i < j /\ IsFirstMinimum(i, Admissible)
       /\ Chi2[j] = Chi2[i] /\ Amps[j] # Amps[i]
       /\ WithDelay = FitOf(i)

\* the result of the search with the last call's direction constraint and no window
Unconstrained == get_fit_withdelay(Base, Obj.tag, NoWindow(Dir)).fit

\* the index the unconstrained search selects
UnconstrainedIndex == FirstMinimum(DirectionMask(Amps, Dir))

\* C2: a windowed calc returns the (amp, t0, chisq) of the unconstrained
\* search if its window holds the index that search selects, and a chi-square
\* not below the unconstrained one if its window excludes that index
C2_Windowing ==
  (CalcDone /\ HasWindow(Args)) =>
     /\ Unconstrained = FitOf(UnconstrainedIndex)
     /\ IF UnconstrainedIndex \in WindowIndices(Base, Args)
        THEN WithDelay = Unconstrained
        ELSE RatLeq(Val(Unconstrained.chisq), Val(WithDelay.chisq))

\* C2, its case: the window excludes the index of the unconstrained search
\* and the windowed chi-square is the larger one
C2_Witness ==
  /\ CalcDone /\ HasWindow(Args)
  /\ UnconstrainedIndex \notin WindowIndices(Base, Args)
  /\ RatLess(Val(Unconstrained.chisq), Val(WithDelay.chisq))

\* C3: when the window of calc is the single pretrigger index, the with-delay
\* results and the no-delay results (shift_usec=None, use_chisq_alltimes=True)
\* have the same amplitude and the same chi-square
C3_NoDelayAgrees ==
  (CalcDone /\ last.lgc_fit_nodelay /\ WindowIndices(Base, Args) = {Base.pre}) =>
     /\ WithDelay.amp = NoDelay.amp
     /\ WithDelay.chisq = NoDelay.chisq
     /\ NoDelay.amp = Some(Amps[Base.pre])

\* C3, its case: the window is the pretrigger index while another index has
\* a smaller chi-square
C3_Witness ==
  /\ CalcDone /\ last.lgc_fit_nodelay
  /\ WindowIndices(Base, Args) = {Base.pre}
  /\ \E i \in Idx : RatLess(Chi2[i], Chi2[Base.pre])
  /\ WithDelay.amp = NoDelay.amp /\ WithDelay.chisq = NoDelay.chisq

\* the result of the search with the last call's window and no direction constraint
Undirected ==
  get_fit_withdelay(Base, Obj.tag, [Args EXCEPT !.pulse_direction_constraint = 0])

\* C4: with pulse_direction_constraint 1 calc returns no amplitude below 0,
\* with -1 none above 0, and the chi-square of the constrained fit is not
\* below that of the unconstrained fit of the same signal and window
C4_Direction ==
  CalcDone =>
     /\ Dir = 1 => ~(Val(WithDelay.amp).n < 0)
     /\ Dir = -1 => ~(Val(WithDelay.amp).n > 0)
     /\ Undirected.err = "none"
     /\ RatLeq(Val(Undirected.fit.chisq), Val(WithDelay.chisq))

\* C4, its case: the unconstrained optimum has a negative amplitude and the
\* fit constrained to positive pulses returns an amplitude of at least 0 with
\* a larger chi-square
C4_Witness ==
  /\ CalcDone /\ Dir = 1
  /\ Val(Undirected.fit.amp).n < 0
  /\ ~(Val(WithDelay.amp).n < 0)
  /\ RatLess(Val(Undirected.fit.chisq), Val(WithDelay.chisq))

\* the time t as a number of samples: t * fs
TimeToSamples(t, fs) == RatMul(t, RatInt(fs))

---------------------------------------------------------------------------
(* Claims on the calls specification *)

\* the call c is a calc with a pulse_direction_constraint other than -1, 0, 1
BadDirection(c) ==
  c.op = "calc" /\ Val(c.w).pulse_direction_constraint \notin {-1, 0, 1}

\* C5: a calc with a pulse_direction_constraint other than -1, 0 or 1 raises
\* ValueError and leaves the with-delay results as they were
C5_BadDirectionRaises ==
  [][BadDirection(last') =>
       /\ last'.err = "ValueError"
       /\ get_result_withdelay(objs'[last'.obj]) = get_result_withdelay(objs[last'.obj])]_vars

\* C5, its case: such a call has raised on an object that holds the results
\* of an earlier fit
C5_Witness ==
  /\ BadDirection(last) /\ last.err = "ValueError"
  /\ WithDelay.amp # None

\* the intermediate results a base holds are those of its current signal
IntermediatesCurrent(b) ==
  \A t \in Tags :
    b.filt[t] # None =>
      /\ b.signal # None
      /\ Val(b.filt[t]).sig = Val(b.signal)
      /\ Val(b.filt[t]).amps = FilteredTime(Val(b.signal), Val(b.phi[t]), b.pre)

\* C6: every intermediate result held is one of the current signal; a signal
\* given to calc or calc_nodelay is the current signal afterwards; and the
\* results of a fit, with or without a signal argument, on a base shared by
\* objects of different tags, are those of the current signal
C6_CurrentSignalOnly ==
  /\ \A id \in BaseIds : bases[id] # None => IntermediatesCurrent(Val(bases[id]))
  /\ (last.op \in {"calc", "calc_nodelay"} /\ last.sig # None) =>
        Base.signal = last.sig
  /\ (CalcDone /\ Dir \in {-1, 0, 1}) => WithDelay = FitOf(FirstMinimum(Admissible))
  /\ (CalcDone /\ last.lgc_fit_nodelay) => NoDelay.amp = Some(Amps[Base.pre])
  /\ (last.op = "calc_nodelay" /\ last.err = "none") =>
        NoDelay.amp = Some(Amps[Base.pre])

\* C6, its case: calc(signal=None) has returned on an object whose no-delay
\* results are those of an earlier signal, after the signal was set for the
\* other tag of the shared base
C6_Witness ==
  /\ CalcDone /\ last.sig = None /\ ~last.lgc_fit_nodelay
  /\ NoDelay.amp # None /\ NoDelay.amp # Some(Amps[Base.pre])
  /\ \A t \in Tags : Base.filt[t] # None
  /\ WithDelay = FitOf(FirstMinimum(Admissible))

\* C7: after calc with a signal returns, the with-delay results are those of
\* that signal, and the no-delay results are absent or those of that signal
C7_NoStaleResults ==
  (CalcDone /\ last.sig # None) =>
     /\ WithDelay = FitOf(FirstMinimum(Admissible))
     /\ \/ NoDelay = NoFit
        \/ /\ NoDelay.amp = Some(Amps[Base.pre])
           /\ NoDelay.chisq = Some(Chi2[Base.pre])

\* the stored results of an object
Results(obj) ==
  <<obj.of_amp_withdelay, obj.of_t0_withdelay, obj.of_chisq_withdelay,
    obj.of_amp_nodelay, obj.of_t0_nodelay, obj.of_chisq_nodelay>>

\* C10: when calc or calc_nodelay raises, the stored with-delay and no-delay
\* results are what they were before the call
C10_FailedCallStoresNothing ==
  [][(last'.op \in {"calc", "calc_nodelay"} /\ last'.err # "none") =>
       Results(objs'[last'.obj]) = Results(objs[last'.obj])]_vars

\* C19: calc_nodelay called with a signal and lgc_plot=True returns without
\* raising, the no-delay results of the signal stored, whether or not a fit
\* with delay was run on the object before.
C19_NodelayPlotReturns ==
  (last.op = "calc_nodelay" /\ last.lgc_plot /\ last.sig # None) =>
     /\ last.err = "none"
     /\ NoDelay.amp = Some(Amps[Base.pre])

---------------------------------------------------------------------------
(* Claims on the construction specification *)

\* the kernel a base holds for a tag is the one of its template, PSD and
\* coupling, and what it has filtered for the tag was filtered with it
KernelCurrent(b) ==
  \A t \in Tags :
    /\ b.phi[t] # None =>
         /\ b.templates[t] # None /\ b.psd # None
         /\ Val(b.phi[t]) = KernelOf(b, t)
    /\ b.filt[t] # None =>
         /\ b.phi[t] # None
         /\ Val(b.filt[t]).kern = Val(b.phi[t])

\* the last call made an OF1x1 and ran to the end of __init__
Made == last.op = "init" /\ last.err = "none" /\ Obj.attr_withdelay

UnknownTag(c, bs) ==
  /\ c.op = "init"
  /\ Val(c.a).of_base # None /\ Val(c.a).template = None
  /\ Val(c.a).template_tag \notin template_tags(Val(bs[Val(Val(c.a).of_base)]))

\* C9: making an OF1x1 with template=None and a template_tag the OFBase does
\* not hold raises NotFoundError, and no object is returned
C9_UnknownTagRaises ==
  [][UnknownTag(last', bases) =>
       last'.err = "NotFoundError" /\ objs' = objs]_vars

\* the call c makes an OF1x1 without an OF base and without a sample rate,
\* or without both pretriggers
NoBaseNoRate(c) ==
  /\ c.op = "init"
  /\ Val(c.a).of_base = None
  /\ \/ Val(c.a).sample_rate = None
     \/ Val(c.a).pretrigger_msec = None /\ Val(c.a).pretrigger_samples = None

---------------------------------------------------------------------------
(* Claims on the window specification *)

\* the call c is a calc whose window holds no index of the trace of base b
EmptyWindow(c, b) ==
  /\ c.op = "calc" /\ HasWindow(Val(c.w))
  /\ WindowIndices(b, Val(c.w)) = {} \/ WindowBad(b, Val(c.w))

\* C11: a calc whose window, given by index or by offset in microseconds
\* from the pretrigger, holds no index of the trace raises WindowError and
\* stores no (amp, t0, chisq), with or without delay
C11_EmptyWindowRaises ==
  [][EmptyWindow(last', BaseOf(last'.obj)) =>
       /\ last'.err = "WindowError"
       /\ Results(objs'[last'.obj]) = Results(objs[last'.obj])
       /\ get_result_withdelay(objs'[last'.obj]).fit = NoFit]_vars

\* C11, its case: a window given in microseconds that lies past the end of
\* the trace, on a call that also asks for the no-delay fit
C11_Witness ==
  /\ last.op = "calc" /\ last.err = "WindowError" /\ last.lgc_fit_nodelay
  /\ Args.window_min_from_trig_usec # None
  /\ WindowLo(Base, Args) > NumSamples - 1
  /\ WithDelay = NoFit /\ NoDelay = NoFit

\* the last call was a calc with interpolate_t0 that returned
Interpolating == CalcDone /\ Args.interpolate_t0

\* the time returned as an offset in samples from the discrete index i
OffsetFrom(i) ==
  RatSub(TimeToSamples(Val(WithDelay.t0), Base.fs),
         RatInt(WrapResolved(i) - Base.pre))

\* x is within k samples of 0
Within(x, k) == RatLeq(RatInt(-k), x) /\ RatLeq(x, RatInt(k))

\* neither neighbour of index i, in the circular trace, has a smaller chi2
LocalMinimum(i) ==
  /\ RatLeq(Chi2[i], Chi2[(i - 1) % NumSamples])
  /\ RatLeq(Chi2[i], Chi2[(i + 1) % NumSamples])

\* C13 as stated: with interpolate_t0 the time returned is within one sample
\* of the discrete best index, whatever the window
C13_WithinOneSample ==
  Interpolating =>
    \E i \in Admissible :
      IsFirstMinimum(i, Admissible) /\ Within(OffsetFrom(i), 1)

\* C13, amended: with interpolate_t0 the time returned is the discrete best
\* index plus the vertex offset of the parabola through its chi2 and those of
\* its two neighbours, clipped to the least and greatest admissible index;
\* it is within one sample of the best index when no neighbour has a
\* smaller chi2
C13_VertexClipped ==
  Interpolating =>
    \E i \in Admissible :
      /\ IsFirstMinimum(i, Admissible)
      /\ OffsetFrom(i) = VertexOffset(Chi2, Admissible, i)
      /\ RatLeq(RatInt(SetMin(Admissible) - i), OffsetFrom(i))
      /\ RatLeq(OffsetFrom(i), RatInt(SetMax(Admissible) - i))
      /\ LocalMinimum(i) => Within(OffsetFrom(i), 1)

\* C13, its case: the best index is at an edge of a window, no neighbour has
\* a smaller chi2, and the time returned is off the index by less than a
\* sample
C13_Witness ==
  /\ Interpolating /\ HasWindow(Args)
  /\ \E i \in Admissible :
       /\ IsFirstMinimum(i, Admissible) /\ LocalMinimum(i)
       /\ i \in {SetMin(Admissible), SetMax(Admissible)}
       /\ OffsetFrom(i).n # 0 /\ Within(OffsetFrom(i), 1)

---------------------------------------------------------------------------
(* Dump processing (qetpy/trigger/processing.py).  A numpy array is held   *)
(* with its number of dimensions; a trace is a function on 0..TraceLen-1;  *)
(* a path is the sequence of its pieces and separators.                    *)

\* samples per trace of a dump
TraceLen == 240
\* greatest dump number in a file name
MaxDumpNum == 2
\* eventnumber = EventBase*dumpnum + 1 + ii
EventBase == 10000
\* nconstrain of the constrained fits
Nconstrain == 80
\* samples left out between the averaged range and the pulse
BaselineBuffer == 50

TraceIdx == 0 .. TraceLen - 1

\* a 1-D array and a 2-D array (its rows)
Array1(x) == [ndim |-> 1, data |-> x]

Array2(rows) == [ndim |-> 2, data |-> rows]

\* len(a): the length of the first axis
PyLen(a) == IF a.ndim = 1 THEN TraceLen ELSE Len(a.data)

\* a[np.newaxis, :]
NewAxis(a) == Array2(<<a.data>>)

\* s.split(sep), from position i on, piece the piece being read
RECURSIVE SplitScan(_, _, _, _)
SplitScan(s, sep, i, piece) ==
  IF i > Len(s) THEN <<piece>>
  ELSE IF s[i] = sep THEN <<piece>> \o SplitScan(s, sep, i + 1, <<>>)
  ELSE SplitScan(s, sep, i + 1, Append(piece, s[i]))

Split(s, sep) == SplitScan(s, sep, 1, <<>>)

\* x[-1]
PyLast(x) == x[Len(x)]

Digits ==
  ("0" :> 0) @@ ("1" :> 1) @@ ("2" :> 2) @@ ("3" :> 3) @@ ("4" :> 4) @@
  ("5" :> 5) @@ ("6" :> 6) @@ ("7" :> 7) @@ ("8" :> 8) @@ ("9" :> 9)

\* the number the first k characters of s write in base 10
RECURSIVE DecimalOf(_, _)
DecimalOf(s, k) ==
  IF k = 0 THEN 0 ELSE 10 * DecimalOf(s, k - 1) + Digits[s[k]]

\* int(s): None when s is not a decimal number (int raises ValueError)
PyInt(s) ==
  IF s = <<>> \/ \E k \in 1 .. Len(s) : s[k] \notin DOMAIN Digits
  THEN None
  ELSE Some(DecimalOf(s, Len(s)))

\* file.split('/')[-1].split('.')[0]
SeriesNumber(file) == Split(PyLast(Split(file, "/")), ".")[1]

\* int of the piece int(seriesnumber.split('_')[-1]) is taken of
DumpNum(file) == PyInt(PyLast(Split(SeriesNumber(file), "_")))

\* int(x) of a rational: truncation toward 0
TruncInt(x) == IF x.n < 0 THEN -((-x.n) \div x.d) ELSE x.n \div x.d

---------------------------------------------------------------------------
(* The fits of qetpy.fitting that the processing calls, for a template     *)
(* that is a spike at the centre sample and a white PSD: the filtered      *)
(* trace of section 4.3 is then a_i = x[i]/template[centre] and            *)
(* chi2_i = (sum_j x[j]^2 - x[i]^2)/psd, the search that of section 4.4    *)
(* with the pretrigger at the centre sample.                               *)

\* of two indices l < r, the one where x^2 is greater (chi2 less), l on a tie
PeakOf(x, l, r) == IF x[r] * x[r] > x[l] * x[l] THEN r ELSE l

\* the first index of lo..hi where x^2 is greatest
RECURSIVE PeakScan(_, _, _)
PeakScan(x, lo, hi) ==
  IF lo >= hi THEN lo
  ELSE PeakOf(x, PeakScan(x, lo, (lo + hi) \div 2),
              PeakScan(x, ((lo + hi) \div 2) + 1, hi))

\* the sum of x[j]^2 for j in lo..hi
RECURSIVE SumSq(_, _, _)
SumSq(x, lo, hi) ==
  IF lo > hi THEN 0
  ELSE IF lo = hi THEN x[lo] * x[lo]
  ELSE SumSq(x, lo, (lo + hi) \div 2) + SumSq(x, ((lo + hi) \div 2) + 1, hi)

\* the sum of x[j] for j in lo..hi
RECURSIVE SumOver(_, _, _)
SumOver(x, lo, hi) ==
  IF lo > hi THEN 0
  ELSE IF lo = hi THEN x[lo]
  ELSE SumOver(x, lo, (lo + hi) \div 2) + SumOver(x, ((lo + hi) \div 2) + 1, hi)

\* first and last index of the nconstrain samples about the centre
ConstrainLo(nconstrain) ==
  IF nconstrain = None THEN 0
  ELSE SetMax({0, (TraceLen \div 2) - (Val(nconstrain) \div 2)})

ConstrainHi(nconstrain) ==
  IF nconstrain = None THEN TraceLen - 1
  ELSE SetMin({TraceLen - 1,
               (TraceLen \div 2) + (Val(nconstrain) \div 2) + (Val(nconstrain) % 2) - 1})

\* (amp, t0, chi2) of the fit of x at index i
FitAtIndex(x, template, psd, fs, i) ==
  [amp |-> Rat(x[i], template[TraceLen \div 2]),
   t0 |-> Rat(i - TraceLen \div 2, fs),
   chi2 |-> Rat(SumSq(x, 0, TraceLen - 1) - x[i] * x[i], psd[1])]

\* ofamp(signal, template, psd, fs, withdelay, nconstrain, lgcsigma=False)
ofamp(x, template, psd, fs, withdelay, nconstrain) ==
  FitAtIndex(x, template, psd, fs,
             IF withdelay
             THEN PeakScan(x, ConstrainLo(nconstrain), ConstrainHi(nconstrain))
             ELSE TraceLen \div 2)

\* a value the model does not compute: the function and the scalars it is
\* given (the arrays it is given are left out)
Uninterpreted(fn, args) == [fn |-> fn, args |-> args]

\* ofamp_pileup(signal, template, psd, fs, a1, t1, nconstrain2): the
\* amplitude, time and chi2 of the second pulse
ofamp_pileup(x, template, psd, fs, a1, t1, nconstrain2) ==
  [amp |-> Uninterpreted("ofamp_pileup.amp", <<a1, t1, nconstrain2>>),
   t0 |-> Uninterpreted("ofamp_pileup.t0", <<a1, t1, nconstrain2>>),
   chi2 |-> Uninterpreted("ofamp_pileup.chi2", <<a1, t1, nconstrain2>>)]

\* chi2lowfreq(signal, template, amp, t0, psd, fs, fcutoff)
chi2lowfreq(x, template, amp, t0, psd, fs, fcutoff) ==
  Uninterpreted("chi2lowfreq", <<amp, t0, fcutoff>>)

---------------------------------------------------------------------------
(* _process_single_dump and process_dumps.  A data frame is held as its    *)
(* columns: a function from column names to the sequence of their values.  *)
(* A column name is <<name>>, a channel column f"{name}_ch{i}" <<name, i>>.*)

\* the outcome of a processing function: the error raised, else the frame
FrameRaised(e) == [err |-> e, frame |-> None]

FrameReturned(cols) == [err |-> "none", frame |-> Some(cols)]

\* the quantities computed for a trace, in the order of the list columns
QuantityNames ==
  <<"ofamp_constrain", "t0_constrain", "chi2_constrain", "ofamp_pileup",
    "t0_pileup", "chi2_pileup", "ofamp_noconstrain", "t0_noconstrain",
    "chi2_noconstrain", "ofamp_nodelay", "chi2_nodelay", "chi2_lowfreq",
    "baseline">>

Quantities == {QuantityNames[k] : k \in DOMAIN QuantityNames}

\* the arrays of the dump stored in the frame as they are
TriggerNames ==
  {"ttltimes", "ttlamps", "pulsetimes", "pulseamps", "randomstimes",
   "randomstrigger", "pulsestrigger", "ttltrigger"}

\* f"{col}_ch{ichan}"
ChanColumn(col, ichan) == <<col, ichan>>

\* the keys rq_dict is given before the traces are processed
ListColumns(nchan) ==
  {<<q>> : q \in Quantities}
  \cup {ChanColumn(q, ichan) : q \in Quantities, ichan \in 0 .. nchan - 1}
  \cup {<<"eventnumber">>, <<"seriesnumber">>}

\* eventnumber of the trace at position ii of dump dumpnum
EventNumber(dumpnum, ii) == EventBase * dumpnum + 1 + ii

\* baseline_ind: the smaller of the two fitted pulse indices
BaselineInd(t0_td, t0_td_nocon, fs, n) ==
  SetMin({TruncInt(TimeToSamples(t0_td, fs)) + n \div 2,
          TruncInt(TimeToSamples(t0_td_nocon, fs)) + n \div 2})

\* end_ind
EndInd(baseline_ind) == SetMax({baseline_ind - BaselineBuffer, BaselineBuffer})

\* np.mean(x[:end_ind]) for end_ind > 0
MeanTo(x, end_ind) ==
  Rat(SumOver(x, 0, SetMin({end_ind, TraceLen}) - 1), SetMin({end_ind, TraceLen}))

\* the quantities appended for a trace x, from its three ofamp fits
TraceQuantities(x, template, psd, fs, td, nocon, nodelay) ==
  [ofamp_constrain |-> td.amp, t0_constrain |-> td.t0, chi2_constrain |-> td.chi2,
   ofamp_pileup |-> ofamp_pileup(x, template, psd, fs, td.amp, td.t0, Nconstrain).amp,
   t0_pileup |-> ofamp_pileup(x, template, psd, fs, td.amp, td.t0, Nconstrain).t0,
   chi2_pileup |-> ofamp_pileup(x, template, psd, fs, td.amp, td.t0, Nconstrain).chi2,
   ofamp_noconstrain |-> nocon.amp, t0_noconstrain |-> nocon.t0,
   chi2_noconstrain |-> nocon.chi2,
   ofamp_nodelay |-> nodelay.amp, chi2_nodelay |-> nodelay.chi2,
   chi2_lowfreq |-> chi2lowfreq(x, template, td.amp, td.t0, psd, fs, 20000),
   baseline |-> MeanTo(x, EndInd(BaselineInd(td.t0, nocon.t0, fs, TraceLen)))]

\* the processing of one trace x with a template and a PSD
ProcessTrace(x, template, psd, fs) ==
  TraceQuantities(x, template, psd, fs,
                  ofamp(x, template, psd, fs, TRUE, Some(Nconstrain)),
                  ofamp(x, template, psd, fs, TRUE, None),
                  ofamp(x, template, psd, fs, FALSE, None))

\* traces.sum(axis=1) of one event: the sum of its channels
RECURSIVE SumChannels(_, _)
SumChannels(event, k) ==
  IF k = 0 THEN [j \in TraceIdx |-> 0]
  ELSE [j \in TraceIdx |-> SumChannels(event, k - 1)[j] + event[k][j]]

\* traces_tot[ii]
TraceTot(traces, ii) ==
  IF traces.ndim = 3
  THEN SumChannels(traces.data[ii + 1], traces.nchan)
  ELSE traces.data[ii + 1]

\* what one pass of the loop over the traces appends: the identifiers, the
\* quantities of the summed trace and those of every channel
ProcessEvent(series, dumpnum, traces, nchan, ii, template, psd, fs, templates, psds) ==
  [eventnumber |-> EventNumber(dumpnum, ii),
   seriesnumber |-> series,
   tot |-> ProcessTrace(TraceTot(traces, ii), template, psd, fs),
   chans |-> [ichan \in 1 .. nchan |->
                ProcessTrace(traces.data[ii + 1][ichan], templates.data[ichan],
                             psds.data[ichan], fs)]]

\* the column name of the frame, from what the passes appended
ListColumn(name, rows) ==
  [ii \in 1 .. Len(rows) |->
     IF Len(name) = 2 THEN rows[ii].chans[name[2] + 1][name[1]]
     ELSE IF name[1] \in Quantities THEN rows[ii].tot[name[1]]
     ELSE rows[ii][name[1]]]

\* the column of the frame a trigger array of the dump is stored as
TriggerColumn(name, data) ==
  IF name = "ttltimes" THEN data.trigtimes
  ELSE IF name = "ttlamps" THEN data.trigamps
  ELSE IF name \in {"pulsetimes", "pulseamps", "randomstimes"} THEN data[name]
  ELSE [ii \in 1 .. Len(data.trigtypes) |->
          data.trigtypes[ii][IF name = "randomstrigger" THEN 1
                             ELSE IF name = "pulsestrigger" THEN 2 ELSE 3]]

\* rq_dict when the loop is over
RqDict(data, nchan, rows) ==
  [name \in ListColumns(nchan) \cup {<<t>> : t \in TriggerNames} |->
     IF name[1] \in TriggerNames THEN TriggerColumn(name[1], data)
     ELSE ListColumn(name, rows)]

\* pd.DataFrame.from_dict: the columns must have one length
FromDict(rq_dict) ==
  IF \E a \in DOMAIN rq_dict, b \in DOMAIN rq_dict : Len(rq_dict[a]) # Len(rq_dict[b])
  THEN FrameRaised("ValueError")
  ELSE FrameReturned(rq_dict)

---------------------------------------------------------------------------
(* The dumps on disk and the arrays given to the processing *)

\* a trace with one pulse: a at sample p, 0 elsewhere
PulseAt(p, a) == [j \in TraceIdx |-> IF j = p THEN a ELSE 0]

\* the pulse template: a spike at the centre sample
CentreTemplate == PulseAt(TraceLen \div 2, 1)

\* a white two-sided PSD
WhitePsd == [j \in TraceIdx |-> MaxPsd]

\* pulse positions: inside the first BaselineBuffer samples, at the centre,
\* and past the centre inside the constrained window
EarlyPulse == BaselineBuffer - 20

CentrePulse == TraceLen \div 2

LatePulse == (TraceLen \div 2) + 30

\* traces of shape (events, channels, samples) and (events, samples)
Traces3(nchan, events) == [ndim |-> 3, nchan |-> nchan, data |-> events]

Traces2(events) == [ndim |-> 2, data |-> events]

\* the arrays of a dump with the given traces, one trigger entry per trace
DumpData(traces) ==
  [traces |-> traces,
   trigtimes |-> [ii \in 1 .. Len(traces.data) |-> ii],
   trigamps |-> [ii \in 1 .. Len(traces.data) |-> 1],
   pulsetimes |-> [ii \in 1 .. Len(traces.data) |-> ii],
   pulseamps |-> [ii \in 1 .. Len(traces.data) |-> 1],
   randomstimes |-> [ii \in 1 .. Len(traces.data) |-> 0],
   trigtypes |-> [ii \in 1 .. Len(traces.data) |-> <<FALSE, TRUE, FALSE>>]]

\* dump n: two channels and two traces, then one channel without a channel
\* axis, then one channel with it
DumpFile(n) ==
  IF n = 0
  THEN DumpData(Traces3(2, <<<<PulseAt(LatePulse, 2), PulseAt(LatePulse, 1)>>,
                             <<PulseAt(EarlyPulse, 1), PulseAt(CentrePulse, 2)>>>>))
  ELSE IF n = 1
  THEN DumpData(Traces2(<<PulseAt(CentrePulse, 3), PulseAt(EarlyPulse, 1)>>))
  ELSE DumpData(Traces3(1, <<<<PulseAt(EarlyPulse, n)>>>>))

DigitChars == <<"0", "1", "2", "3", "4", "5", "6", "7", "8", "9">>

\* "data/dump_<n>.npz"
DumpPath(n) == <<"data", "/", "dump", "_", DigitChars[n + 1], ".", "npz">>

\* "data/dump.npz": a dump whose name holds no number
UnnumberedPath == <<"data", "/", "dump", ".", "npz">>

DumpNums == 0 .. MaxDumpNum

\* the files on disk
Files ==
  [f \in {DumpPath(n) : n \in DumpNums} \cup {UnnumberedPath} |->
     IF f = UnnumberedPath THEN DumpFile(0)
     ELSE DumpFile(CHOOSE n \in DumpNums : DumpPath(n) = f)]

---------------------------------------------------------------------------

\* nchan: the length of the channel axis, 1 without one
NumChannels(traces) == IF traces.ndim = 3 THEN traces.nchan ELSE 1

\* a channel array given with one dimension is taken as one row
ChannelRows(a) == IF a.ndim = 1 THEN NewAxis(a) ELSE a

\* _process_single_dump, the loop over the traces and the frame.  A trace
\* without a channel axis has no channel to index: trace[ichan] is a sample,
\* which ofamp, or len() after it, refuses
SingleDumpRows(series, dumpnum, data, nchan, template, psd, fs, templates, psds) ==
  IF data.traces.ndim = 2 /\ Len(data.traces.data) > 0
  THEN FrameRaised("TypeError")
  ELSE FromDict(RqDict(data, nchan,
                       [ii \in 1 .. Len(data.traces.data) |->
                          ProcessEvent(series, dumpnum, data.traces, nchan, ii - 1,
                                       template, psd, fs, templates, psds)]))

\* faulty variant of SingleDumpChannels: only a channel array with fewer
\* rows than the traces have channels is refused
SingleDumpChannelsFewer(series, dumpnum, data, nchan, template, psd, fs, channel_psds, channel_templates) ==
  IF channel_psds = None \/ channel_templates = None
  THEN FrameRaised("UnboundLocalError")
  ELSE IF PyLen(ChannelRows(Val(channel_templates))) < nchan
  THEN FrameRaised("ValueError")
  ELSE IF PyLen(ChannelRows(Val(channel_psds))) < nchan
  THEN FrameRaised("ValueError")
  ELSE SingleDumpRows(series, dumpnum, data, nchan, template, psd, fs,
                      ChannelRows(Val(channel_templates)),
                      ChannelRows(Val(channel_psds)))

\* _process_single_dump, from the loaded arrays on: the columns, for which
\* chan_columns is bound only when both channel arrays are given, then the
\* number of rows of the channel arrays
SingleDumpChannels(series, dumpnum, data, nchan, template, psd, fs, channel_psds, channel_templates) ==
  IF channel_psds = None \/ channel_templates = None
  THEN FrameRaised("UnboundLocalError")
  ELSE IF PyLen(ChannelRows(Val(channel_templates))) # nchan
  THEN FrameRaised("ValueError")
  ELSE IF PyLen(ChannelRows(Val(channel_psds))) # nchan
  THEN FrameRaised("ValueError")
  ELSE SingleDumpRows(series, dumpnum, data, nchan, template, psd, fs,
                      ChannelRows(Val(channel_templates)),
                      ChannelRows(Val(channel_psds)))

\* _process_single_dump(file, template, psd, fs, channel_psds, channel_templates)
process_single_dump(file, template, psd, fs, channel_psds, channel_templates) ==
  IF DumpNum(file) = None THEN FrameRaised("ValueError")
  ELSE IF file \notin DOMAIN Files THEN FrameRaised("FileNotFoundError")
  ELSE SingleDumpChannels(SeriesNumber(file), Val(DumpNum(file)), Files[file],
                          NumChannels(Files[file].traces), template, psd, fs,
                          channel_psds, channel_templates)

\* the values of column name in frames k..Len(frames), one under the other;
\* a frame without the column gives NaN for each of its rows
RECURSIVE ConcatColumn(_, _, _)
ConcatColumn(frames, name, k) ==
  IF k > Len(frames) THEN <<>>
  ELSE (IF name \in DOMAIN frames[k] THEN frames[k][name]
        ELSE [ii \in 1 .. Len(frames[k][<<"eventnumber">>]) |-> "NaN"])
       \o ConcatColumn(frames, name, k + 1)

\* pd.concat(frames, ignore_index=True)
Concat(frames) ==
  IF frames = <<>> THEN FrameRaised("ValueError")
  ELSE FrameReturned([name \in UNION {DOMAIN frames[k] : k \in DOMAIN frames} |->
                        ConcatColumn(frames, name, 1)])

\* the loop of process_dumps over files k..Len(files): the first error is
\* raised, else the frames are concatenated.  The call of
\* _process_single_dump gives neither channel_templates nor channel_psds
RECURSIVE ProcessFiles(_, _, _, _, _, _)
ProcessFiles(files, k, template, psd, fs, results) ==
  IF k > Len(files) THEN Concat(results)
  ELSE IF process_single_dump(files[k], template, psd, fs, None, None).err # "none"
  THEN process_single_dump(files[k], template, psd, fs, None, None)
  ELSE ProcessFiles(files, k + 1, template, psd, fs,
                    Append(results,
                           Val(process_single_dump(files[k], template, psd, fs,
                                                   None, None).frame)))

\* filelist as given: one path (a str) or a list of paths
PathStr(path) == [str |-> path]

PathList(paths) == [list |-> paths]

\* process_dumps(filelist, template, psd, fs, channel_templates, channel_psds)
process_dumps(filelist, template, psd, fs, channel_templates, channel_psds) ==
  ProcessFiles(IF "str" \in DOMAIN filelist THEN <<filelist.str>> ELSE filelist.list,
               1, template, psd, fs, <<>>)

---------------------------------------------------------------------------
(* The dump specification: one call of process_dumps or of                 *)
(* _process_single_dump on the files on disk                               *)

\* the paths given: the dumps on disk
Paths == DOMAIN Files

\* longest list of paths given
MaxFiles == 2

FileLists ==
  {PathStr(f) : f \in Paths}
  \cup {PathList(l) : l \in UNION {[1 .. n -> Paths] : n \in 0 .. MaxFiles}}

\* the channel templates given: none, one template, one row, two rows
ChannelTemplates ==
  {None, Some(Array1(CentreTemplate)), Some(Array2(<<CentreTemplate>>)),
   Some(Array2(<<CentreTemplate, CentreTemplate>>))}

ChannelPsds ==
  {None, Some(Array1(WhitePsd)), Some(Array2(<<WhitePsd>>)),
   Some(Array2(<<WhitePsd, WhitePsd>>))}

\* the sample rates given
DumpRates == 1 .. 2

ProcessDumps(filelist, fs, channel_templates, channel_psds) ==
  /\ proc.op = "none"
  /\ proc' = [op |-> "process_dumps", filelist |-> filelist, fs |-> fs,
              channel_templates |-> channel_templates,
              channel_psds |-> channel_psds,
              result |-> process_dumps(filelist, CentreTemplate, WhitePsd, fs,
                                       channel_templates, channel_psds)]
  /\ UNCHANGED <<bases, objs, last, nops>>

ProcessSingleDump(file, fs, channel_psds, channel_templates) ==
  /\ proc.op = "none"
  /\ proc' = [op |-> "_process_single_dump", filelist |-> PathStr(file), fs |-> fs,
              channel_templates |-> channel_templates,
              channel_psds |-> channel_psds,
              result |-> process_single_dump(file, CentreTemplate, WhitePsd, fs,
                                             channel_psds, channel_templates)]
  /\ UNCHANGED <<bases, objs, last, nops>>

NextDumps ==
  \/ \E filelist \in FileLists, fs \in DumpRates, ct \in ChannelTemplates, cp \in ChannelPsds :
       ProcessDumps(filelist, fs, ct, cp)
  \/ \E file \in Paths, fs \in DumpRates, cp \in ChannelPsds, ct \in ChannelTemplates :
       ProcessSingleDump(file, fs, cp, ct)

SpecDumps == Init /\ [][NextDumps]_vars

---------------------------------------------------------------------------
(* Claims on the dump specification *)

\* process_dumps has been called and has returned or raised
DumpsCalled == proc.op = "process_dumps"

\* the paths of the call, in the order given
ListOf(filelist) ==
  IF "str" \in DOMAIN filelist THEN <<filelist.str>> ELSE filelist.list

\* the call lists at least one dump, and only dumps named with their number
ListsDumps(filelist) ==
  /\ ListOf(filelist) # <<>>
  /\ \A k \in DOMAIN ListOf(filelist) :
       ListOf(filelist)[k] \in DOMAIN Files /\ DumpNum(ListOf(filelist)[k]) # None

\* the number of traces of the first k dumps listed
RECURSIVE TracesIn(_, _)
TracesIn(files, k) ==
  IF k = 0 THEN 0
  ELSE TracesIn(files, k - 1) + Len(Files[files[k]].traces.data)

\* the columns documented for the summed channels
DocumentedColumns ==
  {<<q>> : q \in Quantities} \cup {<<"eventnumber">>, <<"seriesnumber">>}

\* C14: process_dumps, given one path or a list of paths of dumps and no
\* channel templates and no channel PSDs, returns one frame that holds the
\* documented columns, each with one entry per trace of the listed dumps.
C14_OneRowPerTrace ==
  (/\ DumpsCalled
   /\ proc.channel_templates = None
   /\ proc.channel_psds = None
   /\ ListsDumps(proc.filelist))
  => /\ proc.result.err = "none"
     /\ DocumentedColumns \subseteq DOMAIN Val(proc.result.frame)
     /\ \A name \in DOMAIN Val(proc.result.frame) :
          Len(Val(proc.result.frame)[name])
            = TracesIn(ListOf(proc.filelist), Len(ListOf(proc.filelist)))

\* the channel array has one row per channel of every dump listed
RowPerChannel(a, filelist) ==
  /\ a # None
  /\ \A k \in DOMAIN ListOf(filelist) :
       PyLen(ChannelRows(Val(a))) = NumChannels(Files[ListOf(filelist)[k]].traces)

\* C15: when process_dumps is given both channel templates and channel PSDs,
\* a row of each per channel, the frame it returns holds for every channel i
\* the columns of the quantities of channel i next to those of the sum.
C15_ChannelsProcessed ==
  (/\ DumpsCalled
   /\ ListsDumps(proc.filelist)
   /\ RowPerChannel(proc.channel_templates, proc.filelist)
   /\ RowPerChannel(proc.channel_psds, proc.filelist))
  => /\ proc.result.err = "none"
     /\ DocumentedColumns \subseteq DOMAIN Val(proc.result.frame)
     /\ \A k \in DOMAIN ListOf(proc.filelist), q \in Quantities :
          \A ichan \in 0 .. NumChannels(Files[ListOf(proc.filelist)[k]].traces) - 1 :
             ChanColumn(q, ichan) \in DOMAIN Val(proc.result.frame)

\* _process_single_dump has returned a frame
SingleDumpReturned == proc.op = "_process_single_dump" /\ proc.result.err = "none"

\* baseline_ind of row ii of the baseline column name (that of the sum or of
\* a channel), from the two fitted times stored next to it
RowBaselineInd(frame, name, ii) ==
  BaselineInd(frame[[name EXCEPT ![1] = "t0_constrain"]][ii],
              frame[[name EXCEPT ![1] = "t0_noconstrain"]][ii], proc.fs, TraceLen)

\* C20: the range [0, end_ind) a baseline is averaged over holds no sample at
\* or after baseline_ind, for the summed trace and for every channel of every
\* row of a frame.
C20_BaselineBeforePulse ==
  SingleDumpReturned =>
    \A name \in DOMAIN Val(proc.result.frame) :
      name[1] = "baseline" =>
        \A ii \in DOMAIN Val(proc.result.frame)[name] :
          EndInd(RowBaselineInd(Val(proc.result.frame), name, ii))
            <= RowBaselineInd(Val(proc.result.frame), name, ii)

\* _process_single_dump has been called, with both channel arrays, on a dump
\* on disk
ChannelsCalled ==
  /\ proc.op = "_process_single_dump"
  /\ proc.channel_templates # None /\ proc.channel_psds # None
  /\ proc.filelist.str \in DOMAIN Files

\* C21: when _process_single_dump is given both channel templates and
\* channel PSDs and the rows of either (a 1-D array being one row) are not
\* as many as the channels of the saved traces, it raises ValueError and
\* returns no frame; no trace is fitted before, so the error is not one of
\* the loop over the traces.
C21_RowMismatchRaises ==
  (/\ ChannelsCalled
   /\ \/ ~RowPerChannel(proc.channel_templates, proc.filelist)
      \/ ~RowPerChannel(proc.channel_psds, proc.filelist))
  => proc.result = FrameRaised("ValueError")

\* C21, its case: the dump whose traces have no channel axis, which the loop
\* over the traces cannot process by channel, one row of templates and two
\* rows of PSDs: the second of the two checks has raised
C21_Witness ==
  /\ ChannelsCalled
  /\ proc.filelist.str = DumpPath(1)
  /\ Len(Files[DumpPath(1)].traces.data) > 0
  /\ RowPerChannel(proc.channel_templates, proc.filelist)
  /\ PyLen(ChannelRows(Val(proc.channel_psds))) = 2
  /\ proc.result = FrameRaised("ValueError")

---------------------------------------------------------------------------
(* The event specification: the event numbers _process_single_dump gives   *)
(* to traces, by the dump number of their file and their position in it    *)

\* positions of a trace in its dump: the first two, and those about the
\* EventBase-th
TracePositions == {0, 1, EventBase - 1, EventBase, EventBase + 1}

\* traces numbered in a behaviour
MaxEvents == 2

InitEvents ==
  /\ bases = [NoBases EXCEPT !["shared"] = Some(OFBase(SamplesPerUsec, Pretrigger))]
  /\ objs = [o \in Objs |-> NoObject]
  /\ last = NoCall
  /\ nops = 0
  /\ proc = [op |-> "eventnumber", seen |-> {}]

\* the pass of the loop for the trace at position ii of dump dumpnum
NumberEvent(dumpnum, ii) ==
  /\ proc.op = "eventnumber"
  /\ Cardinality(proc.seen) < MaxEvents
  /\ proc' = [proc EXCEPT !.seen = @ \cup {[dumpnum |-> dumpnum, ii |-> ii,
                                           eventnumber |-> EventNumber(dumpnum, ii)]}]
  /\ UNCHANGED <<bases, objs, last, nops>>

NextEvents == \E dumpnum \in DumpNums, ii \in TracePositions : NumberEvent(dumpnum, ii)

SpecEvents == InitEvents /\ [][NextEvents]_vars

\* C16: two traces that differ in dump number or in position within the
\* dump have different event numbers.
C16_EventNumberUnique ==
  proc.op = "eventnumber"
  => \A e1 \in proc.seen, e2 \in proc.seen :
       (e1.dumpnum # e2.dumpnum \/ e1.ii # e2.ii) => e1.eventnumber # e2.eventnumber

===========================================================================
